---- MODULE Spec2Model ----
(***************************************************************************)
(* koa-mock-ctx: the continuation-chain dispatcher (compose) and the       *)
(* context factory (createMockGenerator) of src/src/index.ts.              *)
(*                                                                         *)
(* Part 1 models one invocation of a composed callable.  The dispatcher is *)
(* the code; the middleware bodies and the final continuation are the      *)
(* environment: a body may write to the shared context, call its           *)
(* continuation any number of times, await or drop the promise it got,     *)
(* await work of its own, catch or let pass an exception, return or throw. *)
(* JavaScript runs one call stack to completion: `stack` holds the bodies  *)
(* that are executing, a suspended body resumes only on an empty stack.    *)
(*                                                                         *)
(* Part 2 models the context factory.  JavaScript objects that can be      *)
(* shared by reference (a nested state object, an array header value, a    *)
(* file descriptor) live in `heap` and are pointed to by address, so that  *)
(* a copy and an alias differ; an object literal with its insertion order  *)
(* is a sequence of key/value entries.                                     *)
(***************************************************************************)
EXTENDS Integers, Sequences, FiniteSets, TLC

\* Longest middleware list explored.
MaxMw == 2
\* Most contexts built from one factory.
MaxCtx == 2
\* Most mutations made through the contexts.
MaxMut == 1
\* Most operations called on one context's surface.
MaxOps == 3
\* Most calls made on one continuation stub.
MaxCalls == 2

VARIABLES
    middleware,  \* the list given to compose: each entry the kind of function
    next,        \* the final continuation given to the composed callable
    index,       \* the dispatch cursor (let index = -1)
    pc,          \* per middleware: idle | run | awaitNext | awaitOwn | done
    res,         \* per dispatch index: the promise dispatch(i) first returned
    got,         \* per middleware: the promise its latest continuation call returned
    held,        \* per middleware: that promise has not been awaited yet
    stack,       \* the bodies executing synchronously, innermost last
    exc,         \* the exception unwinding into the innermost body
    ret,         \* what the composed callable gave its caller
    written,     \* shared context state: the middleware that have written their mark
    calls,       \* history: continuation calls made per middleware (2: twice or more)
    entries,     \* history: times each dispatch index was entered (2: twice or more)
    enteredBy,   \* history: whose continuation call entered each body
    order,       \* history: the indices entered, in order
    late,        \* history: the bodies that resumed from their await before a later body wrote
    resumed,     \* history: the body's await of its continuation returned normally
    dropped,     \* history: the body left a continuation promise unawaited
    threw,       \* history: the body threw an error of its own
    passed       \* history: the error the body let pass uncaught

VARIABLES
    heap,        \* the objects held by reference, by address
    baseOptions, \* the options baked into the factory (createMockGenerator's argument)
    ctxs,        \* the contexts built so far, in order
    overrides,   \* history: the override options each context was built with
    snap,        \* history: per context, what it showed when it was built or last
                 \* mutated itself
    built,       \* history: per context, what it showed when it was built
    builtAfter,  \* history: per context, the earlier contexts that had already been
                 \* mutated when it was built
    muts,        \* mutations made through contexts so far
    last,        \* history: the last operation called on a context and its arguments
    writes,      \* history: per context, the cookie writes made on it, in order
    nexts,       \* per context, the continuation stub returned with it
    raised,      \* history: the error the last call of the factory raised
    invoked      \* history: per context, the calls made on its continuation stub

contextVars ==
    <<heap, baseOptions, ctxs, overrides, built, snap, builtAfter, muts, last, writes,
      nexts, raised, invoked>>

composeVars == <<middleware, next, index, pc, res, got, held, stack, exc, ret,
                 written, calls, entries, enteredBy, order, late, resumed,
                 dropped, threw, passed>>

VARIABLES
    started,     \* the invocations of one composed callable made so far
    cursor,      \* per invocation, its dispatch cursor (let index = -1)
    where,       \* per invocation and middleware: idle | run | suspended | done
    active,      \* the bodies executing synchronously, of any invocation, innermost last
    entered,     \* history: per invocation, the dispatch indices entered, in order
    asked,       \* history: per invocation and middleware, continuation calls made
    refused      \* history: per invocation, the calls dispatch refused: who made
                 \* it, and which of the caller's calls it was

pairVars == <<started, cursor, where, active, entered, asked, refused>>

vars == <<composeVars, contextVars, pairVars>>

----------------------------------------------------------------------------
(* Values *)

NoErr == [msg |-> "", by |-> -1]
\* new Error('next() called multiple times')
MultiErr == [msg |-> "next() called multiple times", by |-> -1]
\* an error raised by the body of middleware i
MwErr(i) == [msg |-> "middleware error", by |-> i]
\* an error raised by the final continuation
NextErr == [msg |-> "next error", by |-> -1]

NoRes == [st |-> "none", reason |-> NoErr]
Pending == [st |-> "pending", reason |-> NoErr]
Resolved == [st |-> "resolved", reason |-> NoErr]
Rejected(e) == [st |-> "rejected", reason |-> e]

\* A promise a body holds: the one a dispatch index first returned, or the
\* rejected promise of a refused dispatch.
NoPromise == [tag |-> "none", of |-> -1]
MultiPromise == [tag |-> "multi", of |-> -1]
ChainPromise(i) == [tag |-> "dispatch", of |-> i]

\* Koa.Middleware: a plain function or an async function.
FnKinds == {"sync", "async"}
\* Koa.Next as a caller may pass it: absent, returning no promise (the jest.fn()
\* stub returns undefined; awaited, it reads as a resolved promise), returning a
\* promise that settles later either way, or throwing synchronously.
NextKinds == {"absent", "value", "pending", "throws"}

\* A history counter that tells 0, 1 and "twice or more" apart.
Count(n) == IF n < 2 THEN n + 1 ELSE n

N == Len(middleware)
Mws == 0 .. (N - 1)

StateOf(p) ==
    IF p.tag = "multi" THEN Rejected(MultiErr)
    ELSE IF p.tag = "dispatch" THEN res[p.of]
    ELSE NoRes

Top == stack[Len(stack)]
Running(i) == /\ stack # <<>>
              /\ Top = i
              /\ pc[i] = "run"
              /\ exc = NoErr

----------------------------------------------------------------------------
(* compose: src/src/index.ts 253-273 *)

\* if (i <= index)
DispatchGuardOffByOne(i, idx) == i < idx
DispatchGuard(i, idx) == i <= idx

\* const fn = middleware[i]; if (!fn)
HasFn(i) == i >= 0 /\ i < Len(middleware)

\* next ? next() : Promise.resolve()
CallsNextNever == FALSE
CallsNext == next # "absent"

\* () => dispatch(i + 1)
NextIndexSkip(i) == i + 2
NextIndex(i) == i + 1

\* catch (err) { return Promise.reject(err); }
SyncThrowRethrown(err) == [rethrown |-> TRUE, promise |-> Pending]
SyncThrowOutcome(err) == [rethrown |-> FALSE, promise |-> Rejected(err)]

\* Promise.resolve(fn(...)): the promise dispatch returns for a body is
\* pending while the body runs or is suspended,
BodyPromiseEager == Resolved
BodyPromise == Pending

\* and settles as the body ends, with the body's own outcome.
BodyEndStrict(outcome) == IF outcome = Resolved THEN Rejected(MultiErr) ELSE outcome
BodyEnd(outcome) == outcome

\* return dispatch(0)
FirstIndexOne == 0 + 1
FirstIndex == 0

\* Control leaves the innermost body: back to its caller or to the event loop.
Pop ==
    /\ stack' = SubSeq(stack, 1, Len(stack) - 1)
    /\ ret' = IF Len(stack) = 1 /\ ret = "running" THEN "promise" ELSE ret

\* The promise (or the exception) a dispatch hands to its caller.
Hand(caller, p) ==
    IF caller = -1
    THEN UNCHANGED <<got, held>>
    ELSE /\ got' = [got EXCEPT ![caller] = p]
         /\ held' = [held EXCEPT ![caller] = TRUE]

\* return next ? next() : Promise.resolve()
\* The call is outside dispatch's try: what next() returns or throws goes to the
\* caller as it is.
Terminal(caller) ==
    /\ UNCHANGED <<pc, enteredBy, order, stack>>
    /\ IF ~CallsNext
       THEN /\ res' = [res EXCEPT ![N] = Resolved]
            /\ Hand(caller, ChainPromise(N))
            /\ ret' = IF caller = -1 THEN "promise" ELSE ret
            /\ UNCHANGED <<entries, exc>>
       ELSE /\ entries' = [entries EXCEPT ![N] = Count(@)]
            /\ IF next = "throws"
               THEN /\ exc' = IF caller = -1 THEN exc ELSE NextErr
                    /\ ret' = IF caller = -1 THEN "threw" ELSE ret
                    /\ UNCHANGED <<res, got, held>>
               ELSE /\ res' = [res EXCEPT ![N] =
                                 IF next = "pending" THEN Pending ELSE Resolved]
                    /\ Hand(caller, ChainPromise(N))
                    /\ ret' = IF caller # -1 THEN ret
                              ELSE IF next = "value" THEN "value" ELSE "promise"
                    /\ UNCHANGED exc

\* try { return Promise.resolve(fn(context, () => dispatch(i + 1))); }
Enter(i, caller) ==
    /\ entries' = [entries EXCEPT ![i] = Count(@)]
    /\ pc' = [pc EXCEPT ![i] = "run"]
    /\ res' = [res EXCEPT ![i] = BodyPromise]
    /\ enteredBy' = [enteredBy EXCEPT ![i] = caller]
    /\ order' = Append(order, i)
    /\ stack' = Append(stack, i)
    /\ Hand(caller, ChainPromise(i))
    /\ ret' = IF caller = -1 THEN "running" ELSE ret
    /\ UNCHANGED exc

\* const dispatch = (i: number): Promise<void> => { ... }
Dispatch(i, caller) ==
    IF DispatchGuard(i, index)
    THEN /\ Hand(caller, MultiPromise)
         /\ UNCHANGED <<index, pc, res, entries, enteredBy, order, stack, exc, ret>>
    ELSE /\ index' = i
         /\ IF HasFn(i) THEN Enter(i, caller) ELSE Terminal(caller)

\* return function (context, next?) { let index = -1; ...; return dispatch(0); }
Invoke ==
    /\ ret = "notCalled"
    /\ index = -1
    /\ Dispatch(FirstIndex, -1)
    /\ UNCHANGED <<pairVars, contextVars, middleware, next, written, calls, late, resumed,
                   dropped, threw, passed>>

----------------------------------------------------------------------------
(* The middleware bodies and the event loop *)

\* The body ends with `outcome`: the promise dispatch(i) returned settles.
\* A plain function that throws goes through dispatch's catch.
Finish(i, outcome, sync) ==
    LET o == IF sync THEN SyncThrowOutcome(outcome.reason)
             ELSE [rethrown |-> FALSE, promise |-> BodyEnd(outcome)]
    IN  /\ pc' = [pc EXCEPT ![i] = "done"]
        /\ res' = [res EXCEPT ![i] = o.promise]
        /\ dropped' = [dropped EXCEPT ![i] = @ \/ held[i]]
        /\ stack' = SubSeq(stack, 1, Len(stack) - 1)
        /\ IF o.rethrown
           THEN /\ exc' = IF Len(stack) = 1 THEN NoErr ELSE outcome.reason
                /\ ret' = IF Len(stack) = 1 THEN "threw" ELSE ret
                /\ held' = [j \in Mws |-> IF Len(stack) > 1 /\ j = stack[Len(stack) - 1]
                                          THEN FALSE ELSE held[j]]
           ELSE /\ exc' = NoErr
                /\ ret' = IF Len(stack) = 1 /\ ret = "running" THEN "promise" ELSE ret
                /\ UNCHANGED held

\* ctx.state.x = ...
Write(i) ==
    /\ Running(i)
    /\ i \notin written
    /\ written' = written \cup {i}
    /\ late' = late \cup {k \in Mws : k < i /\ resumed[k]}
    /\ UNCHANGED <<pairVars, contextVars, middleware, next, index, pc, res, got, held, stack, exc, ret,
                   calls, entries, enteredBy, order, resumed, dropped, threw,
                   passed>>

\* next()
CallNext(i) ==
    /\ Running(i)
    /\ calls' = [calls EXCEPT ![i] = Count(@)]
    /\ dropped' = [dropped EXCEPT ![i] = @ \/ held[i]]
    /\ Dispatch(NextIndex(i), i)
    /\ UNCHANGED <<pairVars, contextVars, middleware, next, written, late, resumed, threw, passed>>

\* await <the promise next() returned>
Await(i) ==
    /\ Running(i)
    /\ middleware[i + 1] = "async"
    /\ held[i]
    /\ pc' = [pc EXCEPT ![i] = "awaitNext"]
    /\ held' = [held EXCEPT ![i] = FALSE]
    /\ Pop
    /\ UNCHANGED <<pairVars, contextVars, middleware, next, index, res, got, exc, written, calls, entries,
                   enteredBy, order, late, resumed, dropped, threw, passed>>

\* await <work of the body's own>
AwaitOwn(i) ==
    /\ Running(i)
    /\ middleware[i + 1] = "async"
    /\ pc' = [pc EXCEPT ![i] = "awaitOwn"]
    /\ Pop
    /\ UNCHANGED <<pairVars, contextVars, middleware, next, index, res, got, held, exc, written, calls,
                   entries, enteredBy, order, late, resumed, dropped, threw,
                   passed>>

\* the body returns
Return(i) ==
    /\ Running(i)
    /\ Finish(i, Resolved, FALSE)
    /\ UNCHANGED <<pairVars, contextVars, middleware, next, index, got, held, written, calls, entries,
                   enteredBy, order, late, resumed, threw, passed>>

\* throw new Error(...)
Throw(i) ==
    /\ Running(i)
    /\ threw' = [threw EXCEPT ![i] = TRUE]
    /\ Finish(i, Rejected(MwErr(i)), middleware[i + 1] = "sync")
    /\ UNCHANGED <<pairVars, contextVars, middleware, next, index, got, written, calls, entries,
                   enteredBy, order, late, resumed, passed>>

\* try { ... } catch { } around the continuation
Catch(i) ==
    /\ stack # <<>> /\ Top = i /\ pc[i] = "run"
    /\ exc # NoErr
    /\ exc' = NoErr
    /\ UNCHANGED <<pairVars, contextVars, middleware, next, index, pc, res, got, held, stack, ret, written,
                   calls, entries, enteredBy, order, late, resumed, dropped,
                   threw, passed>>

\* the exception leaves the body
Uncaught(i) ==
    /\ stack # <<>> /\ Top = i /\ pc[i] = "run"
    /\ exc # NoErr
    /\ passed' = [passed EXCEPT ![i] = exc]
    /\ Finish(i, Rejected(exc), middleware[i + 1] = "sync")
    /\ UNCHANGED <<pairVars, contextVars, middleware, next, index, got, written, calls, entries,
                   enteredBy, order, late, resumed, threw>>

\* the body's own work is done: the body resumes
ResumeOwn(i) ==
    /\ stack = <<>>
    /\ pc[i] = "awaitOwn"
    /\ pc' = [pc EXCEPT ![i] = "run"]
    /\ stack' = <<i>>
    /\ UNCHANGED <<pairVars, contextVars, middleware, next, index, res, got, held, exc, ret, written, calls,
                   entries, enteredBy, order, late, resumed, dropped, threw,
                   passed>>

\* the awaited promise has settled: the body resumes, with the rejection
\* thrown into it
ResumeNext(i) ==
    /\ stack = <<>>
    /\ pc[i] = "awaitNext"
    /\ StateOf(got[i]).st \in {"resolved", "rejected"}
    /\ pc' = [pc EXCEPT ![i] = "run"]
    /\ stack' = <<i>>
    /\ exc' = StateOf(got[i]).reason
    /\ resumed' = [resumed EXCEPT ![i] = @ \/ (StateOf(got[i]).st = "resolved"
                                               /\ got[i].tag = "dispatch")]
    /\ UNCHANGED <<pairVars, contextVars, middleware, next, index, res, got, held, ret, written, calls,
                   entries, enteredBy, order, late, dropped, threw, passed>>

\* the pending promise of the final continuation settles
SettleNext ==
    /\ stack = <<>>
    /\ res[N].st = "pending"
    /\ \E r \in {Resolved, Rejected(NextErr)} : res' = [res EXCEPT ![N] = r]
    /\ UNCHANGED <<pairVars, contextVars, middleware, next, index, pc, got, held, stack, exc, ret, written,
                   calls, entries, enteredBy, order, late, resumed, dropped,
                   threw, passed>>

----------------------------------------------------------------------------

\* No factory in use: compose needs none.
NoFactory ==
    /\ heap = <<>>
    /\ baseOptions = <<>>
    /\ ctxs = <<>>
    /\ overrides = <<>>
    /\ built = <<>>
    /\ snap = <<>>
    /\ builtAfter = <<>>
    /\ muts = 0
    /\ last = [op |-> "none", c |-> 0, key |-> "", val |-> [t |-> "undefined", s |-> "", at |-> 0]]
    /\ writes = <<>>
    /\ nexts = <<>>
    /\ raised = "none"
    /\ invoked = <<>>

\* No second invocation in play.
NoPair ==
    /\ started = {}
    /\ cursor = <<>>
    /\ where = <<>>
    /\ active = <<>>
    /\ entered = <<>>
    /\ asked = <<>>
    /\ refused = <<>>

\* Before the composed function is called.
ComposeFresh ==
    /\ index = -1
    /\ pc = [i \in Mws |-> "idle"]
    /\ res = [i \in 0 .. N |-> NoRes]
    /\ got = [i \in Mws |-> NoPromise]
    /\ held = [i \in Mws |-> FALSE]
    /\ stack = <<>>
    /\ exc = NoErr
    /\ ret = "notCalled"
    /\ written = {}
    /\ calls = [i \in Mws |-> 0]
    /\ entries = [i \in 0 .. N |-> 0]
    /\ enteredBy = [i \in Mws |-> -1]
    /\ order = <<>>
    /\ late = {}
    /\ resumed = [i \in Mws |-> FALSE]
    /\ dropped = [i \in Mws |-> FALSE]
    /\ threw = [i \in Mws |-> FALSE]
    /\ passed = [i \in Mws |-> NoErr]

InitCompose ==
    /\ middleware \in UNION {[1 .. n -> FnKinds] : n \in 0 .. MaxMw}
    /\ next \in NextKinds
    /\ NoFactory
    /\ NoPair
    /\ ComposeFresh

\* One step of some body: the innermost one, or one the event loop resumes.
BodyWrite == \E i \in Mws : Write(i)
BodyCallNext == \E i \in Mws : CallNext(i)
BodyAwait == \E i \in Mws : Await(i)
BodyAwaitOwn == \E i \in Mws : AwaitOwn(i)
BodyReturn == \E i \in Mws : Return(i)
BodyThrow == \E i \in Mws : Throw(i)
BodyCatch == \E i \in Mws : Catch(i)
BodyUncaught == \E i \in Mws : Uncaught(i)
BodyResumeOwn == \E i \in Mws : ResumeOwn(i)
BodyResumeNext == \E i \in Mws : ResumeNext(i)

NextCompose ==
    \/ Invoke
    \/ SettleNext
    \/ BodyWrite
    \/ BodyCallNext
    \/ BodyAwait
    \/ BodyAwaitOwn
    \/ BodyReturn
    \/ BodyThrow
    \/ BodyCatch
    \/ BodyUncaught
    \/ BodyResumeOwn
    \/ BodyResumeNext

SpecCompose == InitCompose /\ [][NextCompose]_vars

----------------------------------------------------------------------------
(* Part 2: the context factory, createMockGenerator *)

\* A property value: a primitive, or a reference to an object in the heap.
Prim(s) == [t |-> "prim", s |-> s, at |-> 0]
Ref(a) == [t |-> "ref", s |-> "", at |-> a]
\* The other values of a property.
Num(n) == [t |-> "number", s |-> "", at |-> 0, n |-> n]
JsUndefined == [t |-> "undefined", s |-> "", at |-> 0]
JsNull == [t |-> "null", s |-> "", at |-> 0]
\* A function, by name.
Fn(name) == [t |-> "function", s |-> name, at |-> 0]
\* An optional scalar option: the key left out, or given with a value, which may
\* be undefined.
Absent == [has |-> FALSE, v |-> JsUndefined]
Given(v) == [has |-> TRUE, v |-> v]
\* An optional mapping option: left out, or an object literal.
Undefined == [def |-> FALSE, kv |-> <<>>]
Obj(kv) == [def |-> TRUE, kv |-> kv]
KV(k, v) == [k |-> k, v |-> v]

\* The objects a property can refer to.
ObjectCell(id) == [kind |-> "object", id |-> id]
\* An application handle: the caller's, or the default double.
AppCell(id) == [kind |-> "app", id |-> id]
ArrayCell(items) == [kind |-> "array", items |-> items]
ListCell(refs) == [kind |-> "list", refs |-> refs]
\* A MockFile; an optional field is <<>> when left out and <<v>> when given.
MockFile(filepath, size, originalFilename, mimetype) ==
    [kind |-> "file", filepath |-> filepath, size |-> size,
     originalFilename |-> originalFilename, mimetype |-> mimetype]

\* Own enumerable string keys, in insertion order.
Has(kv, k) == \E i \in 1 .. Len(kv) : kv[i].k = k
At(kv, k) == CHOOSE i \in 1 .. Len(kv) : kv[i].k = k
Get(kv, k) == kv[At(kv, k)].v
Keys(kv) == {kv[i].k : i \in 1 .. Len(kv)}
\* obj[k] = v: an existing key keeps its place, a new key goes last.
Put(kv, k, v) ==
    IF Has(kv, k) THEN [kv EXCEPT ![At(kv, k)].v = v] ELSE Append(kv, KV(k, v))

\* Body(v), with v computed once.
With(v, Body(_)) == CHOOSE r \in {Body(x) : x \in {v}} : TRUE

\* { ...target, ...source }
RECURSIVE Spread(_, _)
Spread(target, source) ==
    IF source = <<>> THEN target
    ELSE With(Put(target, Head(source).k, Head(source).v),
              LAMBDA t : Spread(t, Tail(source)))

\* key.toLowerCase() on the header names in use.
ToLowerCase(key) ==
    CASE key = "X-Request-Id" -> "x-request-id"
      [] key = "Accept-Encoding" -> "accept-encoding"
      [] key = "Content-Type" -> "content-type"
      [] key = "X-REQUEST-ID" -> "x-request-id"
      [] key = "Location" -> "location"
      [] key = "X-Custom-Header" -> "x-custom-header"
      [] key = "Session" -> "session"
      [] key = "initialCookie" -> "initialcookie"
      [] OTHER -> key

RECURSIVE NormalizeInto(_, _)
NormalizeInto(result, headers) ==
    IF headers = <<>> THEN result
    ELSE With(Put(result, ToLowerCase(Head(headers).k), Head(headers).v),
              LAMBDA r : NormalizeInto(r, Tail(headers)))

normalizeHeaders(headers) == NormalizeInto(<<>>, headers)

OrElseDefault(opt, dflt) == dflt

\* mockFile.field ?? dflt
OrElse(opt, dflt) == IF opt = <<>> THEN dflt ELSE opt[1]

\* mockFile.size on null or undefined: a TypeError.
NoDescriptor(files) == \E i \in 1 .. Len(files) : files[i].v.t \in {"undefined", "null"}

createUploadedFile(mockFile) ==
    [kind |-> "uploaded",
     size |-> OrElse(mockFile.size, 0),
     filepath |-> mockFile.filepath,
     originalFilename |-> OrElse(mockFile.originalFilename, "mockfile.txt"),
     mimetype |-> OrElse(mockFile.mimetype, "application/octet-stream"),
     lastModifiedDate |-> "new Date()"]

\* fileOrFiles.map(createUploadedFile): a new object per element.
RECURSIVE MapUploaded(_, _, _)
MapUploaded(refs, h, done) ==
    IF refs = <<>> THEN [refs |-> done, heap |-> h]
    ELSE With(<<Append(h, createUploadedFile(h[Head(refs)])), Append(done, Len(h) + 1)>>,
              LAMBDA a : MapUploaded(Tail(refs), a[1], a[2]))

RECURSIVE processMockFiles(_, _, _)
processMockFiles(files, h, processed) ==
    IF files = <<>> THEN [kv |-> processed, heap |-> h]
    ELSE LET key == Head(files).k
             fileOrFiles == h[Head(files).v.at]
         IN  IF fileOrFiles.kind = "list"
             THEN With(MapUploaded(fileOrFiles.refs, h, <<>>), LAMBDA m :
                  With(<<Append(m.heap, ListCell(m.refs)),
                         Put(processed, key, Ref(Len(m.heap) + 1))>>,
                       LAMBDA a : processMockFiles(Tail(files), a[1], a[2])))
             ELSE With(<<Append(h, createUploadedFile(fileOrFiles)),
                         Put(processed, key, Ref(Len(h) + 1))>>,
                       LAMBDA a : processMockFiles(Tail(files), a[1], a[2]))

\* { ...a, ...b, ...c, ...d }
Spread4(a, b, c, d) ==
    With(Spread(a, b), LAMBDA ab :
    With(Spread(ab, c), LAMBDA abc : Spread(abc, d)))

OverBaseWins(b, o) == IF b.has THEN b ELSE o

\* A key of { ...baseOptions, ...overrideOptions }: the override's when it has the
\* key, whatever the value.
Over(b, o) == IF o.has THEN o ELSE b

ScalarKeys ==
    {"status", "message", "method", "url", "host", "hostname", "protocol", "body",
     "requestBody", "app"}

MergedFilesAlways(base, override) ==
    [k \in ScalarKeys |-> Over(base[k], override[k])] @@
    [state |-> Obj(Spread(base.state.kv, override.state.kv)),
     headers |-> Obj(Spread4(base.headers.kv, base.requestHeaders.kv,
                             override.headers.kv, override.requestHeaders.kv)),
     cookies |-> Obj(Spread(base.cookies.kv, override.cookies.kv)),
     files |-> Obj(Spread(base.files.kv, override.files.kv))]

MergedForCloning(base, override) ==
    [k \in ScalarKeys |-> Over(base[k], override[k])] @@
    [state |-> Obj(Spread(base.state.kv, override.state.kv)),
     headers |-> Obj(Spread4(base.headers.kv, base.requestHeaders.kv,
                             override.headers.kv, override.requestHeaders.kv)),
     cookies |-> Obj(Spread(base.cookies.kv, override.cookies.kv)),
     files |-> IF base.files.def \/ override.files.def
               THEN Obj(Spread(base.files.kv, override.files.kv))
               ELSE Undefined]

\* structuredClone: every object reached is copied to a new address.
RECURSIVE CloneRefs(_, _, _)
CloneRefs(refs, h, done) ==
    IF refs = <<>> THEN [refs |-> done, heap |-> h]
    ELSE With(<<Append(h, h[Head(refs)]), Append(done, Len(h) + 1)>>,
              LAMBDA a : CloneRefs(Tail(refs), a[1], a[2]))

CloneValue(v, h) ==
    IF v.t # "ref" THEN [v |-> v, heap |-> h]
    ELSE IF h[v.at].kind = "list"
    THEN With(CloneRefs(h[v.at].refs, h, <<>>), LAMBDA r :
              [v |-> Ref(Len(r.heap) + 1), heap |-> Append(r.heap, ListCell(r.refs))])
    ELSE [v |-> Ref(Len(h) + 1), heap |-> Append(h, h[v.at])]

RECURSIVE CloneEntries(_, _, _)
CloneEntries(kv, h, done) ==
    IF kv = <<>> THEN [kv |-> done, heap |-> h]
    ELSE With(CloneValue(Head(kv).v, h), LAMBDA c :
         With(Append(done, KV(Head(kv).k, c.v)),
              LAMBDA d : CloneEntries(Tail(kv), c.heap, d)))

CloneOpt(o, h) ==
    IF o.def
    THEN With(CloneEntries(o.kv, h, <<>>), LAMBDA c : [o |-> Obj(c.kv), heap |-> c.heap])
    ELSE [o |-> o, heap |-> h]

\* structuredClone throws a DataCloneError when it reaches a function.
Uncloneable(opts) ==
    \/ \E m \in {"state", "headers", "cookies", "files"} :
           \E i \in 1 .. Len(opts[m].kv) : opts[m].kv[i].v.t = "function"
    \/ \E k \in ScalarKeys : opts[k].v.t = "function"

\* A copy of the top-level object only: the nested objects stay shared.
ShallowCopy(opts, h) == [options |-> opts, heap |-> h]

structuredClone(opts, h) ==
    With(CloneOpt(opts.state, h), LAMBDA s :
    With(CloneOpt(opts.headers, s.heap), LAMBDA hd :
    With(CloneOpt(opts.cookies, hd.heap), LAMBDA ck :
    With(CloneOpt(opts.files, ck.heap), LAMBDA fl :
    With(CloneValue(opts.body.v, fl.heap), LAMBDA bd :
    With(CloneValue(opts.requestBody.v, bd.heap), LAMBDA rb :
        [options |-> [opts EXCEPT !.state = s.o, !.headers = hd.o, !.cookies = ck.o,
                                  !.files = fl.o, !.body.v = bd.v,
                                  !.requestBody.v = rb.v],
         heap |-> rb.heap]))))))

\* !normalizedHeaders['content-type']
Falsy(headers, k) == ~Has(headers, k) \/ Get(headers, k) = Prim("")

MultipartTypes == {"multipart/form-data", "multipart/form-data; boundary=x"}

IncludesExactly(headers, h) ==
    /\ Has(headers, "content-type")
    /\ Get(headers, "content-type") = Prim("multipart/form-data")

\* (normalizedHeaders['content-type'] || '').includes('multipart/form-data'):
\* a substring test on a string, an element test on an array.
IncludesMultipart(headers, h) ==
    /\ Has(headers, "content-type")
    /\ LET v == Get(headers, "content-type")
       IN  IF v.t = "prim" THEN v.s \in MultipartTypes
           ELSE \E i \in 1 .. Len(h[v.at].items) :
                    h[v.at].items[i] = "multipart/form-data"

\* x ?? dflt, for an option that may be left out
Nullish(v) == v.t \in {"undefined", "null"}
Coalesce(opt, dflt) == IF Nullish(opt.v) THEN dflt ELSE opt.v

\* const { app, ...restOfOptions } = mergedForCloning
RestOfOptions(merged) == [merged EXCEPT !.app = Absent]

FinalAppCloned(app, h) ==
    IF Nullish(app.v) THEN [app |-> Ref(Len(h) + 1), heap |-> Append(h, AppCell("default"))]
    ELSE [app |-> Ref(Len(h) + 1), heap |-> Append(h, h[app.v.at])]

\* app ?? { emit: jest.fn(), onerror: ... }: the caller's object itself, or a new
\* double.
FinalApp(app, h) ==
    IF Nullish(app.v) THEN [app |-> Ref(Len(h) + 1), heap |-> Append(h, AppCell("default"))]
    ELSE [app |-> app.v, heap |-> h]

DefaultStatus == 200

\* jest.fn(): a mock function with no implementation and no call recorded.
JestFn == [calls |-> <<>>, results |-> <<>>]

\* The generated function left by a throw: no context, and nothing of what it
\* allocated within reach.
Raise(error, h) == [threw |-> error, ctx |-> <<>>, heap |-> h]

\* The body of the generated function: the error it raises or the context it
\* returns, and the heap it leaves.
Generate(base, override, h) ==
    With(MergedForCloning(base, override), LAMBDA mergedForCloning :
    IF Uncloneable(RestOfOptions(mergedForCloning)) THEN Raise("DataCloneError", h) ELSE
    With(structuredClone(RestOfOptions(mergedForCloning), h), LAMBDA cl :
    IF NoDescriptor(cl.options.files.kv) THEN Raise("TypeError", h) ELSE
    With(normalizeHeaders(cl.options.headers.kv), LAMBDA normalizedHeaders :
    With(IF cl.options.files.def
         THEN processMockFiles(cl.options.files.kv, cl.heap, <<>>)
         ELSE [kv |-> <<>>, heap |-> cl.heap], LAMBDA pf :
    With(FinalApp(mergedForCloning.app, pf.heap), LAMBDA finalApp :
        LET options == cl.options
            headers == IF options.files.def /\ Falsy(normalizedHeaders, "content-type")
                       THEN Put(normalizedHeaders, "content-type",
                                Prim("multipart/form-data"))
                       ELSE normalizedHeaders
            processedFiles == IF options.files.def THEN Obj(pf.kv)
                              ELSE IF IncludesMultipart(normalizedHeaders, cl.heap)
                              THEN Obj(<<>>)
                              ELSE Undefined
        IN  [threw |-> "none",
             ctx |-> [state |-> options.state.kv,
                      request |-> [body |-> options.body.v,
                                   files |-> processedFiles,
                                   app |-> finalApp.app,
                                   headers |-> headers,
                                   method |-> Coalesce(options.method, Prim("GET")),
                                   url |-> Coalesce(options.url, Prim("/")),
                                   host |-> Coalesce(options.host, Prim("test.com")),
                                   hostname |-> Coalesce(options.hostname,
                                                         Prim("test.com")),
                                   protocol |-> Coalesce(options.protocol, Prim("http")),
                                   secure |-> options.protocol.v = Prim("https")],
                      response |-> [app |-> finalApp.app,
                                    status |-> Coalesce(options.status,
                                                        Num(DefaultStatus)),
                                    body |-> JsNull,
                                    message |-> Coalesce(options.message, Prim("OK")),
                                    headers |-> <<>>],
                      app |-> finalApp.app,
                      cookies |-> options.cookies.kv,
                      own |-> options],
             heap |-> finalApp.heap])))))

\* What a mapping shows to a reader: values with the objects they refer to, the
\* addresses left out.
ViewCell(cell, h) ==
    IF cell.kind = "list"
    THEN [kind |-> "list", items |-> [i \in 1 .. Len(cell.refs) |-> h[cell.refs[i]]]]
    ELSE cell
ViewVal(v, h) ==
    IF v.t # "ref" THEN [t |-> v.t, s |-> v.s, cell |-> <<>>]
    ELSE [t |-> "ref", s |-> "", cell |-> <<ViewCell(h[v.at], h)>>]
ViewObj(kv, h) == [i \in 1 .. Len(kv) |-> KV(kv[i].k, ViewVal(kv[i].v, h))]
ViewCtx(c, h) ==
    [state |-> ViewObj(c.state, h),
     headers |-> ViewObj(c.request.headers, h),
     cookies |-> ViewObj(c.cookies, h),
     files |-> IF c.request.files.def THEN <<ViewObj(c.request.files.kv, h)>>
               ELSE <<>>]

----------------------------------------------------------------------------
(* The callers of the factory *)

\* The objects the caller's option literals refer to.
CallerHeap ==
    << ObjectCell("base user"),
       ArrayCell(<<"gzip", "br">>),
       MockFile("/etc/config.json", <<>>, <<>>, <<>>),
       ListCell(<<5>>),
       MockFile("/tmp/img1.png", <<>>, <<"img1.png">>, <<>>),
       ObjectCell("override user"),
       MockFile("/home/user/upload.txt", <<54321>>, <<"my-photo.jpg">>,
                <<"image/jpeg">>),
       ObjectCell("initial body"),
       AppCell("mockApp"),
       ObjectCell("request body") >>

NoOptions ==
    [k \in ScalarKeys |-> Absent] @@
    [state |-> Undefined, headers |-> Undefined, requestHeaders |-> Undefined,
     cookies |-> Undefined, files |-> Undefined]

BaseChoices ==
    { NoOptions,
      [NoOptions EXCEPT
          !.state = Obj(<<KV("tenantId", Prim("tenant-123")), KV("user", Ref(1))>>),
          !.headers = Obj(<<KV("X-Request-Id", Prim("abc-123"))>>),
          !.cookies = Obj(<<KV("initialCookie", Prim("hello"))>>),
          !.status = Given(Num(404)),
          !.message = Given(Prim("Not Found")),
          !.method = Given(Prim("POST")),
          !.url = Given(Prim("/base")),
          !.host = Given(Prim("base.com")),
          !.body = Given(Ref(8)),
          !.app = Given(Ref(9))],
      [NoOptions EXCEPT
          !.state = Obj(<<KV("tenantId", Prim("tenant-123")), KV("user", Ref(1))>>),
          !.headers = Obj(<<KV("x-request-id", Prim("abc-123")),
                            KV("Accept-Encoding", Ref(2))>>),
          !.requestHeaders = Obj(<<KV("X-Request-Id", Prim("def-456"))>>),
          !.cookies = Obj(<<KV("initialCookie", Prim("hello"))>>),
          !.files = Obj(<<KV("defaultConfig", Ref(3)), KV("gallery", Ref(4))>>),
          !.hostname = Given(Prim("api.base.com")),
          !.protocol = Given(Prim("https")),
          !.requestBody = Given(Prim("base request body"))] }

OverrideChoices ==
    { NoOptions,
      [NoOptions EXCEPT
          !.state = Obj(<<KV("user", Ref(6)), KV("role", Prim("admin"))>>),
          !.headers = Obj(<<KV("x-request-id", Prim("xyz-789"))>>),
          !.cookies = Obj(<<KV("initialCookie", Prim("bye")),
                            KV("theme", Prim("dark"))>>),
          !.files = Obj(<<KV("defaultConfig", Ref(7))>>),
          !.status = Given(Num(201)),
          !.method = Given(Prim("PUT")),
          !.protocol = Given(Prim("http")),
          !.body = Given(Prim("created")),
          !.requestBody = Given(Ref(10))],
      [NoOptions EXCEPT
          !.state = Obj(<<KV("tenantId", Prim("tenant-456"))>>),
          !.status = Given(JsUndefined),
          !.url = Given(Prim("/override")),
          !.requestHeaders = Obj(<<KV("Content-Type",
                                       Prim("multipart/form-data; boundary=x"))>>)] }

Ctxs == 1 .. Len(ctxs)
\* The keys of a mapping whose value is an object.
RefKeys(kv) == {kv[i].k : i \in {j \in 1 .. Len(kv) : kv[j].v.t = "ref"}}

\* const [ctx, next] = factory(override)
Build(override) ==
    /\ Len(ctxs) < MaxCtx
    /\ \E g \in {Generate(baseOptions, override, heap)} :
           /\ g.threw = "none"
           /\ ctxs' = Append(ctxs, g.ctx)
           /\ heap' = g.heap
    /\ built' = Append(built, ViewCtx(ctxs'[Len(ctxs')], heap'))
    /\ snap' = Append(snap, ViewCtx(ctxs'[Len(ctxs')], heap'))
    /\ overrides' = Append(overrides, override)
    /\ builtAfter' = Append(builtAfter, {c \in Ctxs : snap[c] # built[c]})
    /\ writes' = Append(writes, <<>>)
    /\ nexts' = Append(nexts, JestFn)
    /\ raised' = "none"
    /\ invoked' = Append(invoked, 0)
    /\ UNCHANGED <<pairVars, composeVars, baseOptions, muts, last>>

\* What every mutation made through context c leaves behind.
Mutated(c) ==
    /\ muts < MaxMut
    /\ muts' = muts + 1
    /\ snap' = [snap EXCEPT ![c] = ViewCtx(ctxs'[c], heap')]
    /\ UNCHANGED <<pairVars, composeVars, baseOptions, overrides, built, builtAfter, last, writes,
                   nexts, raised, invoked>>

\* ctx.state[k] = 'changed'
SetState(c, k) ==
    /\ ctxs' = [ctxs EXCEPT ![c].state = Put(@, k, Prim("changed"))]
    /\ UNCHANGED heap
    /\ Mutated(c)

\* ctx.state[k].id = 'changed'
SetNested(c, k) ==
    /\ k \in RefKeys(ctxs[c].state)
    /\ heap' = [heap EXCEPT ![Get(ctxs[c].state, k).at].id = "changed"]
    /\ UNCHANGED ctxs
    /\ Mutated(c)

\* ctx.setHeaders({ [key]: 'changed' })
setHeaders(c, key) ==
    /\ ctxs' = [ctxs EXCEPT ![c].request.headers =
                                 Put(@, ToLowerCase(key), Prim("changed"))]
    /\ UNCHANGED heap
    /\ Mutated(c)

\* ctx.headers[k][0] = 'changed'
SetHeaderItem(c, k) ==
    /\ k \in RefKeys(ctxs[c].request.headers)
    /\ heap' = [heap EXCEPT ![Get(ctxs[c].request.headers, k).at].items[1] = "changed"]
    /\ UNCHANGED ctxs
    /\ Mutated(c)

\* ctx.cookies.set(name, 'changed')
CookiesSet(c, name) ==
    /\ ctxs' = [ctxs EXCEPT ![c].cookies = Put(@, name, Prim("changed"))]
    /\ UNCHANGED heap
    /\ Mutated(c)

\* ctx.request.files[k].originalFilename = 'changed', on the first file when the
\* field holds several
SetFile(c, k) ==
    /\ ctxs[c].request.files.def
    /\ k \in Keys(ctxs[c].request.files.kv)
    /\ LET a == Get(ctxs[c].request.files.kv, k).at
           f == IF heap[a].kind = "list" THEN heap[a].refs[1] ELSE a
       IN  heap' = [heap EXCEPT ![f].originalFilename = "changed"]
    /\ UNCHANGED ctxs
    /\ Mutated(c)

StateKeys == {"tenantId", "user", "count"}
HeaderNames == {"X-Request-Id", "Accept-Encoding"}
CookieNames == {"initialCookie", "session"}
FileFields == {"defaultConfig", "gallery"}

BuildContext == \E override \in OverrideChoices : Build(override)
MutateState == \E c \in Ctxs, k \in StateKeys : SetState(c, k)
MutateNested == \E c \in Ctxs, k \in StateKeys : SetNested(c, k)
MutateHeaders == \E c \in Ctxs, k \in HeaderNames : setHeaders(c, k)
MutateHeaderItem == \E c \in Ctxs, k \in HeaderNames : SetHeaderItem(c, ToLowerCase(k))
MutateCookies == \E c \in Ctxs, k \in CookieNames : CookiesSet(c, k)
MutateFile == \E c \in Ctxs, k \in FileFields : SetFile(c, k)

InitContext ==
    /\ middleware = <<>>
    /\ next = "absent"
    /\ ComposeFresh
    /\ NoPair
    /\ heap = CallerHeap
    /\ baseOptions \in BaseChoices
    /\ ctxs = <<>>
    /\ overrides = <<>>
    /\ built = <<>>
    /\ snap = <<>>
    /\ builtAfter = <<>>
    /\ muts = 0
    /\ last = [op |-> "none", c |-> 0, key |-> "", val |-> [t |-> "undefined", s |-> "", at |-> 0]]
    /\ writes = <<>>
    /\ nexts = <<>>
    /\ raised = "none"
    /\ invoked = <<>>

NextContext ==
    \/ BuildContext
    \/ MutateState
    \/ MutateNested
    \/ MutateHeaders
    \/ MutateHeaderItem
    \/ MutateCookies
    \/ MutateFile

SpecContext == InitContext /\ [][NextContext]_vars

----------------------------------------------------------------------------
(* Part 3: the surface of one context *)

ResponseProps == {"status", "body", "message"}
RequestProps == {"method", "url"}
CtxProps == ResponseProps \cup RequestProps \cup {"requestBody"}

\* The data property Object.assign(ctx, { ...options }) leaves, were no accessor
\* defined over it.
CtxSnapshot(ctx, prop) == ctx.own[prop].v

\* The getters of Object.defineProperties(ctx, ...).
CtxRead(ctx, prop) ==
    IF prop \in ResponseProps THEN ctx.response[prop]
    ELSE IF prop = "requestBody" THEN ctx.request.body
    ELSE ctx.request[prop]

\* The setters of Object.defineProperties(ctx, ...).
CtxWrite(ctx, prop, val) ==
    IF prop \in ResponseProps THEN [ctx EXCEPT !.response[prop] = val]
    ELSE IF prop = "requestBody" THEN [ctx EXCEPT !.request.body = val]
    ELSE [ctx EXCEPT !.request[prop] = val]

\* ctx.response[prop] = val, ctx.request[prop] = val
OwnerWrite(ctx, prop, val) ==
    IF prop \in ResponseProps THEN [ctx EXCEPT !.response[prop] = val]
    ELSE [ctx EXCEPT !.request[prop] = val]

\* ctx.header, ctx.headers
CtxHeaders(ctx) == ctx.request.headers

\* The methods the response is given: Object.assign(response, { ..., set, redirect }).
ResponseMethods == {"set", "redirect"}

\* What a call ctx.response[method](...) gives back: both methods return nothing,
\* and calling a property the response does not have throws a TypeError.
ResponseReturn(method) ==
    IF method \in ResponseMethods THEN [threw |-> "none", v |-> JsUndefined]
    ELSE [threw |-> "TypeError", v |-> JsUndefined]

SetFieldOnRequest(ctx, field, val) ==
    [ctx EXCEPT !.request.headers = Put(@, ToLowerCase(field), val)]

\* response.set(field, val)
SetField(ctx, field, val) ==
    [ctx EXCEPT !.response.headers = Put(@, ToLowerCase(field), val)]

\* response.set({ ... })
SetFields(ctx, fields) ==
    [ctx EXCEPT !.response.headers = NormalizeInto(@, fields)]

RedirectStatus == 302

RedirectKeepsStatus(ctx, url) == SetField(ctx, "Location", url)

\* response.redirect(url)
redirect(ctx, url) ==
    [SetField(ctx, "Location", url) EXCEPT !.response.status = Num(RedirectStatus)]

\* ctx.setBody(body)
setBody(ctx, body) == [ctx EXCEPT !.request.body = body]

\* ctx.setHeaders(headers)
SetRequestHeaders(ctx, headers) ==
    [ctx EXCEPT !.request.headers = NormalizeInto(@, headers)]

\* ctx.cookies.set(name, value)
CookiesPut(ctx, name, value) == [ctx EXCEPT !.cookies = Put(@, name, value)]

AssignToCopy(ctx, newCookies) == ctx

\* ctx.setCookies(newCookies): Object.assign(cookies, newCookies)
AssignCookies(ctx, newCookies) == [ctx EXCEPT !.cookies = Spread(@, newCookies)]

CookiesGetFolded(ctx, name) ==
    IF \E i \in 1 .. Len(ctx.cookies) : ToLowerCase(ctx.cookies[i].k) = ToLowerCase(name)
    THEN ctx.cookies[CHOOSE i \in 1 .. Len(ctx.cookies) :
                         ToLowerCase(ctx.cookies[i].k) = ToLowerCase(name)].v
    ELSE JsUndefined

\* ctx.cookies.get(name)
CookiesGet(ctx, name) ==
    IF Has(ctx.cookies, name) THEN Get(ctx.cookies, name) ELSE JsUndefined

\* headerValue.join(',')
RECURSIVE Join(_)
Join(items) ==
    IF items = <<>> THEN ""
    ELSE IF Len(items) = 1 THEN items[1]
    ELSE items[1] \o "," \o Join(Tail(items))

RequestGetExact(ctx, field, h) ==
    IF ~Has(ctx.request.headers, field) THEN JsUndefined
    ELSE LET headerValue == Get(ctx.request.headers, field)
         IN  IF headerValue.t = "ref" THEN Prim(Join(h[headerValue.at].items))
             ELSE headerValue

\* ctx.get(field): request.get
RequestGet(ctx, field, h) ==
    IF ~Has(ctx.request.headers, ToLowerCase(field)) THEN JsUndefined
    ELSE LET headerValue == Get(ctx.request.headers, ToLowerCase(field))
         IN  IF headerValue.t = "ref" THEN Prim(Join(h[headerValue.at].items))
             ELSE headerValue

\* What every operation called on context c leaves behind.
Called(c, op, key, val) ==
    /\ muts < MaxOps
    /\ muts' = muts + 1
    /\ last' = [op |-> op, c |-> c, key |-> key, val |-> val]
    /\ snap' = [snap EXCEPT ![c] = ViewCtx(ctxs'[c], heap)]
    /\ UNCHANGED <<pairVars, composeVars, heap, baseOptions, overrides, built, builtAfter, nexts,
                   raised, invoked>>

\* The value written to a property: a status code, or a string.
ViaCtx(prop) == IF prop = "status" THEN Num(204) ELSE Prim("via ctx")
ViaOwner(prop) == IF prop = "status" THEN Num(503) ELSE Prim("via owner")

\* ctx[prop] = val
WriteCtx(c, prop) ==
    /\ ctxs' = [ctxs EXCEPT ![c] = CtxWrite(@, prop, ViaCtx(prop))]
    /\ UNCHANGED writes
    /\ Called(c, "ctx write", prop, ViaCtx(prop))

\* ctx.response[prop] = val, ctx.request[prop] = val
WriteOwner(c, prop) ==
    /\ ctxs' = [ctxs EXCEPT ![c] = OwnerWrite(@, prop, ViaOwner(prop))]
    /\ UNCHANGED writes
    /\ Called(c, "owner write", prop, ViaOwner(prop))

\* ctx.set(field, 'my-value')
CallSet(c, field) ==
    /\ ctxs' = [ctxs EXCEPT ![c] = SetField(@, field, Prim("my-value"))]
    /\ UNCHANGED writes
    /\ Called(c, "set", field, Prim("my-value"))

HeaderFields == <<KV("X-Custom-Header", Prim("100")), KV("Location", Prim("/elsewhere"))>>

\* ctx.set({ ... })
CallSetFields(c) ==
    /\ ctxs' = [ctxs EXCEPT ![c] = SetFields(@, HeaderFields)]
    /\ UNCHANGED writes
    /\ Called(c, "set mapping", "", JsUndefined)

\* ctx.redirect(url)
CallRedirect(c, url) ==
    /\ ctxs' = [ctxs EXCEPT ![c] = redirect(@, Prim(url))]
    /\ UNCHANGED writes
    /\ Called(c, "redirect", "", Prim(url))

\* ctx.setBody({ success: true })
CallSetBody(c) ==
    /\ ctxs' = [ctxs EXCEPT ![c] = setBody(@, Prim("success"))]
    /\ UNCHANGED writes
    /\ Called(c, "setBody", "", Prim("success"))

\* ctx.setHeaders({ [key]: '12345' })
CallSetHeaders(c, key) ==
    /\ ctxs' = [ctxs EXCEPT ![c] = SetRequestHeaders(@, <<KV(key, Prim("12345"))>>)]
    /\ UNCHANGED writes
    /\ Called(c, "setHeaders", key, Prim("12345"))

\* ctx.cookies.set(name, value)
CallCookiesSet(c, name, value) ==
    /\ ctxs' = [ctxs EXCEPT ![c] = CookiesPut(@, name, Prim(value))]
    /\ writes' = [writes EXCEPT ![c] = Append(@, KV(name, Prim(value)))]
    /\ Called(c, "cookies.set", name, Prim(value))

NewCookies == <<KV("theme", Prim("light")), KV("session", Prim("from mapping"))>>

\* ctx.setCookies({ ... })
CallSetCookies(c) ==
    /\ ctxs' = [ctxs EXCEPT ![c] = AssignCookies(@, NewCookies)]
    /\ writes' = [writes EXCEPT ![c] = @ \o NewCookies]
    /\ Called(c, "setCookies", "", JsUndefined)

SetNames == {"X-Custom-Header", "location"}
SetHeaderNames == {"X-REQUEST-ID", "Content-Type"}
CookieValues == {"abc-xyz-123", "granted"}

\* mockContext(options), or one call of a factory
BuildOne == ctxs = <<>> /\ BuildContext
DoWriteCtx == \E c \in Ctxs, prop \in CtxProps : WriteCtx(c, prop)
DoWriteOwner == \E c \in Ctxs, prop \in ResponseProps \cup RequestProps : WriteOwner(c, prop)
DoSet == \E c \in Ctxs, field \in SetNames : CallSet(c, field)
DoSetFields == \E c \in Ctxs : CallSetFields(c)
DoRedirect == \E c \in Ctxs : CallRedirect(c, "/login")
DoSetBody == \E c \in Ctxs : CallSetBody(c)
DoSetHeaders == \E c \in Ctxs, key \in SetHeaderNames : CallSetHeaders(c, key)
DoCookiesSet ==
    \E c \in Ctxs, name \in {"session", "Session"}, value \in CookieValues :
        CallCookiesSet(c, name, value)
DoSetCookies == \E c \in Ctxs : CallSetCookies(c)

NextSurface ==
    \/ BuildOne
    \/ DoWriteCtx
    \/ DoWriteOwner
    \/ DoSet
    \/ DoSetFields
    \/ DoRedirect
    \/ DoSetBody
    \/ DoSetHeaders
    \/ DoCookiesSet
    \/ DoSetCookies

SpecSurface == InitContext /\ [][NextSurface]_vars

----------------------------------------------------------------------------
(* Part 4: the factory called with any configuration, and the stubs it returns *)

\* next(): the mock records the call and, having no implementation, returns
\* undefined.
MockCall(mock) ==
    [calls |-> Append(mock.calls, <<>>), results |-> Append(mock.results, JsUndefined)]

\* The caller's objects, with a list of two descriptors.
BuildHeap == CallerHeap \o << ListCell(<<5, 7>>) >>

FactoryBases ==
    BaseChoices \cup
    { [NoOptions EXCEPT
          !.headers = Obj(<<KV("Content-Type", Prim("application/json"))>>),
          !.files = Obj(<<KV("gallery", Ref(11))>>)],
      [NoOptions EXCEPT
          !.state = Obj(<<KV("logger", Fn("log"))>>)] }

FactoryOverrides ==
    OverrideChoices \cup
    { [NoOptions EXCEPT
          !.headers = Obj(<<KV("Content-Type", Prim("multipart/form-data"))>>),
          !.state = Obj(<<KV("logger", Prim("off"))>>)],
      [NoOptions EXCEPT
          !.requestHeaders = Obj(<<KV("content-type", Prim("application/json"))>>)],
      [NoOptions EXCEPT
          !.files = Obj(<<KV("avatar", JsNull)>>)] }

\* const [ctx, next] = factory(override), when the generated function throws
BuildThrows(override) ==
    /\ Len(ctxs) < MaxCtx
    /\ \E g \in {Generate(baseOptions, override, heap)} :
           /\ g.threw # "none"
           /\ raised' = g.threw
           /\ heap' = g.heap
    /\ UNCHANGED <<pairVars, composeVars, baseOptions, ctxs, overrides, built, snap, builtAfter,
                   muts, last, writes, nexts, invoked>>

\* await next(), on the stub returned with context c
CallStub(c) ==
    /\ invoked[c] < MaxCalls
    /\ invoked' = [invoked EXCEPT ![c] = @ + 1]
    /\ nexts' = [nexts EXCEPT ![c] = MockCall(@)]
    /\ UNCHANGED <<pairVars, composeVars, heap, baseOptions, ctxs, overrides, built, snap,
                   builtAfter, muts, last, writes, raised>>

BuildAny == \E override \in FactoryOverrides : Build(override)
BuildRaises == \E override \in FactoryOverrides : BuildThrows(override)
CallNextStub == \E c \in Ctxs : CallStub(c)

InitBuild ==
    /\ middleware = <<>>
    /\ next = "absent"
    /\ ComposeFresh
    /\ NoPair
    /\ heap = BuildHeap
    /\ baseOptions \in FactoryBases
    /\ ctxs = <<>>
    /\ overrides = <<>>
    /\ built = <<>>
    /\ snap = <<>>
    /\ builtAfter = <<>>
    /\ muts = 0
    /\ last = [op |-> "none", c |-> 0, key |-> "", val |-> [t |-> "undefined", s |-> "", at |-> 0]]
    /\ writes = <<>>
    /\ nexts = <<>>
    /\ raised = "none"
    /\ invoked = <<>>

NextBuild ==
    \/ BuildAny
    \/ BuildRaises
    \/ CallNextStub

SpecBuild == InitBuild /\ [][NextBuild]_vars


----------------------------------------------------------------------------
(* Part 5: one composed callable, invoked twice *)

Invocations == {1, 2}

\* let index = -1, inside the returned function: every invocation has a cursor
\* of its own.
CursorShared(a) == 1
CursorOf(a) == a

TopIs(a, i) ==
    /\ active # <<>>
    /\ active[Len(active)] = <<a, i>>
    /\ where[a][i] = "run"

Leave == active' = SubSeq(active, 1, Len(active) - 1)

\* dispatch(i) in invocation a: the n-th call made by `caller` (-1: the composed
\* callable itself).
DispatchIn(a, i, caller, n) ==
    IF DispatchGuard(i, cursor[CursorOf(a)])
    THEN /\ refused' = [refused EXCEPT ![a] = @ \cup {<<caller, n>>}]
         /\ UNCHANGED <<cursor, where, active, entered>>
    ELSE /\ cursor' = [cursor EXCEPT ![CursorOf(a)] = i]
         /\ entered' = [entered EXCEPT ![a] = Append(@, i)]
         /\ IF HasFn(i)
            THEN /\ where' = [where EXCEPT ![a][i] = "run"]
                 /\ active' = Append(active, <<a, i>>)
            ELSE UNCHANGED <<where, active>>
         /\ UNCHANGED refused

\* fn(ctx): the a-th invocation of the composed callable, made by the caller while
\* no body is executing
InvokeIn(a) ==
    /\ a = Cardinality(started) + 1
    /\ active = <<>>
    /\ started' = started \cup {a}
    /\ DispatchIn(a, FirstIndex, -1, 1)
    /\ UNCHANGED <<composeVars, contextVars, asked>>

\* next()
AskNext(a, i) ==
    /\ TopIs(a, i)
    /\ asked' = [asked EXCEPT ![a][i] = Count(@)]
    /\ DispatchIn(a, NextIndex(i), i, Count(asked[a][i]))
    /\ UNCHANGED <<composeVars, contextVars, started>>

\* await ...: the body yields to the event loop
Suspend(a, i) ==
    /\ TopIs(a, i)
    /\ middleware[i + 1] = "async"
    /\ where' = [where EXCEPT ![a][i] = "suspended"]
    /\ Leave
    /\ UNCHANGED <<composeVars, contextVars, started, cursor, entered, asked, refused>>

\* the event loop resumes the body
Resume(a, i) ==
    /\ active = <<>>
    /\ where[a][i] = "suspended"
    /\ where' = [where EXCEPT ![a][i] = "run"]
    /\ active' = << <<a, i>> >>
    /\ UNCHANGED <<composeVars, contextVars, started, cursor, entered, asked, refused>>

\* the body ends
End(a, i) ==
    /\ TopIs(a, i)
    /\ where' = [where EXCEPT ![a][i] = "done"]
    /\ Leave
    /\ UNCHANGED <<composeVars, contextVars, started, cursor, entered, asked, refused>>

InvokeEither == \E a \in Invocations : InvokeIn(a)
PairAskNext == \E a \in Invocations, i \in Mws : AskNext(a, i)
PairSuspend == \E a \in Invocations, i \in Mws : Suspend(a, i)
PairResume == \E a \in Invocations, i \in Mws : Resume(a, i)
PairEnd == \E a \in Invocations, i \in Mws : End(a, i)

InitPair ==
    /\ middleware \in UNION {[1 .. n -> FnKinds] : n \in 0 .. MaxMw}
    /\ next = "absent"
    /\ NoFactory
    /\ ComposeFresh
    /\ started = {}
    /\ cursor = [a \in Invocations |-> -1]
    /\ where = [a \in Invocations |-> [i \in Mws |-> "idle"]]
    /\ active = <<>>
    /\ entered = [a \in Invocations |-> <<>>]
    /\ asked = [a \in Invocations |-> [i \in Mws |-> 0]]
    /\ refused = [a \in Invocations |-> {}]

NextPair ==
    \/ InvokeEither
    \/ PairAskNext
    \/ PairSuspend
    \/ PairResume
    \/ PairEnd

SpecPair == InitPair /\ [][NextPair]_vars

----------------------------------------------------------------------------
(* Properties of compose *)

AllDone == \A i \in Mws : pc[i] = "done"
\* The body of k returned normally (it neither threw nor let an error pass).
Returned(k) == pc[k] = "done" /\ ~threw[k] /\ passed[k] = NoErr
Settled(r) == r.st \in {"resolved", "rejected"}
\* Every body after k has awaited each continuation promise it obtained.
Disciplined(k) == \A j \in Mws : j > k => ~dropped[j]

\* C2: the bodies are entered in list order 0, 1, 2, ... and body k+1 is entered only
\* by the continuation call of body k (body 0 by the composed callable itself).
C2_ListOrder ==
    /\ \A n \in 1 .. Len(order) : order[n] = n - 1
    /\ \A j \in Mws : entries[j] > 0 =>
          /\ enteredBy[j] = j - 1
          /\ j > 0 => calls[j - 1] >= 1 /\ entries[j - 1] > 0
    /\ \A j \in Mws : pc[j] # "idle" <=> entries[j] > 0

C2_Witness == order = <<0, 1>> /\ AllDone

\* C3 as stated: once the await of its continuation has returned in body k, every
\* body after k and the final continuation have completed, and no later body writes
\* to the shared state any more.
C3_Original ==
    \A k \in Mws : resumed[k] =>
        /\ \A j \in Mws : j > k => pc[j] \in {"idle", "done"}
        /\ res[N].st # "pending"
        /\ k \notin late

\* C3 amended: the same, provided every body after k awaits the continuation
\* promises it obtains; the promise body k awaited has settled in any case.
C3_Amended ==
    \A k \in Mws : resumed[k] =>
        /\ k + 1 <= N /\ res[k + 1].st = "resolved"
        /\ Disciplined(k) =>
              /\ \A j \in Mws : j > k => pc[j] \in {"idle", "done"}
              /\ res[N].st # "pending"
              /\ k \notin late

C3_Witness ==
    /\ N = 2 /\ resumed[0] /\ resumed[1] /\ 1 \in written /\ Disciplined(0)
    /\ pc[0] = "run" /\ pc[1] = "done" /\ entries[N] = 1

\* C4: when every middleware has called its continuation exactly once and none has
\* failed, the final continuation given to the composed callable has been invoked
\* exactly once.
C4_FinalOnce ==
    ( /\ ret # "notCalled"
      /\ next # "absent"
      /\ \A i \in Mws : calls[i] = 1 /\ res[i].st # "rejected" ) => entries[N] = 1

C4_Witness ==
    /\ N = 2 /\ AllDone /\ next = "pending"
    /\ \A i \in Mws : calls[i] = 1 /\ res[i] = Resolved
    /\ entries[N] = 1

\* C5: no dispatch index is entered twice, the body of every middleware and the
\* final continuation run at most once however often the continuations are called,
\* and the cursor starts at -1 and never decreases.
C5_EnteredOnce ==
    /\ index = -1
    /\ [](\A j \in 0 .. N : entries[j] <= 1)
    /\ [][index' >= index]_vars

C5_Witness ==
    /\ N = 2 /\ calls[0] = 2 /\ calls[1] = 2 /\ index = 2
    /\ \A j \in 0 .. N : entries[j] = 1

\* C6 as stated: once a body has returned without calling its continuation, no later
\* body and no final continuation is entered and the composed call does not reject.
C6_Original ==
    \A k \in Mws : Returned(k) /\ calls[k] = 0 =>
        /\ \A j \in (k + 1) .. N : entries[j] = 0
        /\ res[0].st # "rejected"

\* C6 amended: ... no later body and no final continuation is entered, the promise
\* of that body's own dispatch resolves, and the composed call rejects only with an
\* error raised by a middleware before k (its own throw or its own double call).
C6_Amended ==
    \A k \in Mws : Returned(k) /\ calls[k] = 0 =>
        /\ \A j \in (k + 1) .. N : entries[j] = 0
        /\ res[k] = Resolved
        /\ res[0].st = "rejected" =>
              res[0].reason \in {MwErr(j) : j \in 0 .. (k - 1)} \cup {MultiErr}

C6_Witness ==
    /\ N = 2 /\ Returned(1) /\ calls[1] = 0 /\ calls[0] = 1
    /\ res[0] = Resolved /\ entries[N] = 0 /\ next # "absent"

\* C7 as stated: once a middleware has called its continuation a second time, the
\* composed call, when it settles, is rejected with 'next() called multiple times'.
C7_Original ==
    \A k \in Mws : calls[k] = 2 /\ Settled(res[0]) => res[0] = Rejected(MultiErr)

\* C7 amended: the second call returns a promise rejected with 'next() called
\* multiple times'; the composed call is rejected with that error when the body lets
\* it pass uncaught and so does every body before it.
C7_Amended ==
    \A k \in Mws :
        /\ calls[k] = 2 => got[k] = MultiPromise
        /\ ( /\ calls[k] = 2
             /\ \A j \in 0 .. k : passed[j] = MultiErr ) => res[0] = Rejected(MultiErr)

C7_Witness ==
    /\ N = 2 /\ calls[1] = 2 /\ passed[1] = MultiErr /\ passed[0] = MultiErr
    /\ res[0] = Rejected(MultiErr) /\ res[0].reason.msg = "next() called multiple times"

\* C8 as stated: an error thrown by a middleware is the rejection reason of the
\* composed call once that has settled.
C8_Original ==
    \A k \in Mws : threw[k] /\ Settled(res[0]) => res[0] = Rejected(MwErr(k))

\* C8 amended: an error thrown by body k (by a plain or an async function) is,
\* unmodified, the rejection reason of the promise dispatch(k) returned, never a
\* synchronous throw of the composed callable; it is the rejection reason of the
\* composed call when every body before k lets it pass uncaught.
C8_Amended ==
    \A k \in Mws : threw[k] =>
        /\ res[k] = Rejected(MwErr(k))
        /\ ret \in {"running", "promise"}
        /\ (\A j \in 0 .. (k - 1) : passed[j] = MwErr(k)) => res[0] = Rejected(MwErr(k))

C8_Witness ==
    /\ N = 2 /\ middleware[2] = "sync" /\ threw[1] /\ passed[0] = MwErr(1)
    /\ res[0] = Rejected(MwErr(1)) /\ ret = "promise"

\* C9: the composed callable always hands its caller a promise; it never throws
\* synchronously and never returns something that is no promise.
C9_AlwaysPromise == ret \in {"notCalled", "running", "promise"}

----------------------------------------------------------------------------
(* Properties of the context factory *)

\* What a build with these override options shows when nothing has been mutated.
Pristine(override) ==
    With(Generate(baseOptions, override, CallerHeap), LAMBDA g : ViewCtx(g.ctx, g.heap))

\* C1: the contexts of one factory share no state, header, cookie or file: each
\* context shows what it showed when it was built or last mutated itself, whatever
\* was done through the others; the caller's own objects, the base options' among
\* them, stay as they were given; and every build, however late, showed what the
\* base and its override options give with nothing mutated.
C1_Isolated ==
    /\ \A c \in Ctxs : ViewCtx(ctxs[c], heap) = snap[c]
    /\ SubSeq(heap, 1, Len(CallerHeap)) = CallerHeap
    /\ \A c \in Ctxs : built[c] = Pristine(overrides[c])

\* Two contexts of a base with a nested state object: the first had its copy of the
\* object mutated before the second was built, and the second shows the base's.
C1_Witness ==
    /\ Len(ctxs) = 2
    /\ 1 \in builtAfter[2]
    /\ "user" \in RefKeys(ctxs[1].state) \cap RefKeys(ctxs[2].state)
    /\ heap[Get(ctxs[1].state, "user").at].id = "changed"
    /\ heap[Get(ctxs[2].state, "user").at].id = "base user"

\* The value the options give for key k of a mapping field: the override's when the
\* override has the key, the base's otherwise.
Winner(baseKv, overrideKv, k) ==
    IF Has(overrideKv, k) THEN Get(overrideKv, k) ELSE Get(baseKv, k)

MergedAsStated(shown, baseKv, overrideKv) ==
    \A k \in Keys(baseKv) \cup Keys(overrideKv) :
        /\ Has(shown, k)
        /\ Get(shown, k) = ViewVal(Winner(baseKv, overrideKv, k), CallerHeap)

\* The values a layer of options gives a header under any spelling of its name,
\* in headers or in requestHeaders.
HeaderValues(o, k) ==
    {ViewVal(e.v, CallerHeap) :
        e \in {f \in {o.headers.kv[i] : i \in 1 .. Len(o.headers.kv)}
                     \cup {o.requestHeaders.kv[i] : i \in 1 .. Len(o.requestHeaders.kv)} :
                 ToLowerCase(f.k) = ToLowerCase(k)}}

HeaderNamesOf(o) == Keys(o.headers.kv) \cup Keys(o.requestHeaders.kv)

HeadersAsStated(shown, base, override) ==
    \A k \in HeaderNamesOf(base) \cup HeaderNamesOf(override) :
        /\ Has(shown, ToLowerCase(k))
        /\ Get(shown, ToLowerCase(k)) \in
               (IF HeaderValues(override, k) # {} THEN HeaderValues(override, k)
                ELSE HeaderValues(base, k))

\* The uploaded file or files a file field's descriptor stands for.
Uploaded(v) ==
    With(processMockFiles(<<KV("field", v)>>, CallerHeap, <<>>),
         LAMBDA p : ViewVal(p.kv[1].v, p.heap))

FilesAsStated(shown, baseKv, overrideKv) ==
    \A k \in Keys(baseKv) \cup Keys(overrideKv) :
        /\ shown # <<>>
        /\ Has(shown[1], k)
        /\ Get(shown[1], k) = Uploaded(Winner(baseKv, overrideKv, k))

\* C10: for each mapping field (state, headers with its requestHeaders alias,
\* cookies, files) a built context holds every key of the base and of the override,
\* with the override's value for a key present in both and the base's value for a
\* key present only in the base; header names are compared without regard to case
\* and a file descriptor is compared with the uploaded file it stands for.
C10_MergePrecedence ==
    \A c \in Ctxs :
        /\ MergedAsStated(built[c].state, baseOptions.state.kv, overrides[c].state.kv)
        /\ HeadersAsStated(built[c].headers, baseOptions, overrides[c])
        /\ MergedAsStated(built[c].cookies, baseOptions.cookies.kv,
                          overrides[c].cookies.kv)
        /\ FilesAsStated(built[c].files, baseOptions.files.kv, overrides[c].files.kv)

----------------------------------------------------------------------------
(* Properties of the surface of a context *)

\* A layer of options supplies a scalar field: it has the key with a value.
Supplies(opt) == opt.has /\ ~Nullish(opt.v)

\* The context has just been built: nothing has been called on it.
Fresh == muts = 0

LayeredAsStated(base, override, k, dflt) ==
    IF Supplies(override[k]) THEN override[k].v
    ELSE IF Supplies(base[k]) THEN base[k].v
    ELSE dflt

LayeredAsBuilt(base, override, k, dflt) ==
    IF override[k].has
    THEN (IF Nullish(override[k].v) THEN dflt ELSE override[k].v)
    ELSE IF Supplies(base[k]) THEN base[k].v
    ELSE dflt

\* The scalar fields a context carries, with the defaults the claim names; the
\* fields whose default it does not name are compared when a layer supplies them.
NamedDefault(k) ==
    CASE k = "status" -> Num(200)
      [] k = "method" -> Prim("GET")
      [] k = "url" -> Prim("/")
      [] k = "host" -> Prim("test.com")
      [] k = "message" -> Prim("OK")
      [] k = "hostname" -> Prim("test.com")
      [] k = "protocol" -> Prim("http")

Carried(ctx, k) ==
    IF k \in {"status", "message"} THEN CtxRead(ctx, k)
    ELSE IF k \in {"method", "url"} THEN CtxRead(ctx, k)
    ELSE ctx.request[k]

ScalarFields == {"status", "message", "method", "url", "host", "hostname", "protocol"}

NothingConfigured(c) == baseOptions = NoOptions /\ overrides[c] = NoOptions

\* C11 as stated: a freshly built context carries, for each scalar field, the
\* override's value when the override supplies one, otherwise the base's value,
\* otherwise the default (status 200, method 'GET', url '/', host 'test.com'); with
\* no configuration at all ctx.body is null and ctx.state is an empty mapping.
C11_Original ==
    \A c \in Ctxs : Fresh =>
        /\ \A k \in ScalarFields :
               Carried(ctxs[c], k) =
                   LayeredAsStated(baseOptions, overrides[c], k, NamedDefault(k))
        /\ NothingConfigured(c) =>
               CtxRead(ctxs[c], "body") = JsNull /\ ctxs[c].state = <<>>

\* C11 amended: the same, except that an override that has the field set to
\* undefined or null hides the base's value: the context then carries the default.
C11_Amended ==
    \A c \in Ctxs : Fresh =>
        /\ \A k \in ScalarFields :
               Carried(ctxs[c], k) =
                   LayeredAsBuilt(baseOptions, overrides[c], k, NamedDefault(k))
        /\ NothingConfigured(c) =>
               CtxRead(ctxs[c], "body") = JsNull /\ ctxs[c].state = <<>>

\* A context built from a base with status 404 and method 'POST' and an override that
\* sets status to undefined and gives a url: it carries the default status, the
\* base's method and the override's url.
C11_Witness ==
    /\ Len(ctxs) = 1 /\ Fresh
    /\ baseOptions.status = Given(Num(404))
    /\ overrides[1].status = Given(JsUndefined)
    /\ CtxRead(ctxs[1], "status") = Num(200)
    /\ CtxRead(ctxs[1], "method") = Prim("POST")
    /\ CtxRead(ctxs[1], "url") = Prim("/override")

HeaderSpellings ==
    {"X-Request-Id", "x-request-id", "X-REQUEST-ID", "Accept-Encoding",
     "accept-encoding", "Content-Type", "content-type"}

\* The values the options of context c give a header, under any spelling.
SuppliedHeader(c, k) ==
    {e.v : e \in {f \in {baseOptions.headers.kv[i] : i \in 1 .. Len(baseOptions.headers.kv)}
                    \cup {baseOptions.requestHeaders.kv[i] :
                             i \in 1 .. Len(baseOptions.requestHeaders.kv)}
                    \cup {overrides[c].headers.kv[i] :
                             i \in 1 .. Len(overrides[c].headers.kv)}
                    \cup {overrides[c].requestHeaders.kv[i] :
                             i \in 1 .. Len(overrides[c].requestHeaders.kv)} :
                 ToLowerCase(f.k) = ToLowerCase(k)}}

\* A header value as it is to be read: the caller's list 'gzip', 'br' as one string.
ReadAs(v) == IF v.t = "ref" THEN Prim("gzip,br") ELSE v

\* C12: ctx.get(name) returns the request header whose name equals name ignoring
\* letter case: on a fresh context a value the configuration supplied under some
\* spelling of the name, after setHeaders the value written, under every spelling;
\* a list value is returned as its elements joined by commas in their order.
C12_GetIgnoresCase ==
    \A c \in Ctxs :
        /\ Fresh =>
               \A k \in HeaderSpellings :
                   SuppliedHeader(c, k) # {} =>
                       RequestGet(ctxs[c], k, heap) \in
                           {ReadAs(v) : v \in SuppliedHeader(c, k)}
        /\ (last.op = "setHeaders" /\ last.c = c) =>
               \A k \in HeaderSpellings :
                   ToLowerCase(k) = ToLowerCase(last.key) =>
                       RequestGet(ctxs[c], k, heap) = last.val

\* A context configured with a list-valued Accept-Encoding on which setHeaders has
\* written X-REQUEST-ID: the list reads as 'gzip,br', the written header is read
\* under another spelling.
C12_Witness ==
    /\ Len(ctxs) = 1
    /\ last.op = "setHeaders" /\ last.key = "X-REQUEST-ID"
    /\ RequestGet(ctxs[1], "Accept-Encoding", heap) = Prim("gzip,br")
    /\ RequestGet(ctxs[1], "x-request-id", heap) = Prim("12345")

CookieNamesRead ==
    {"session", "Session", "initialCookie", "initialcookie", "theme"}

\* C13 as stated: a cookie held under one casing of its name is returned by
\* ctx.cookies.get under any other casing of that name.
C13_Original ==
    \A c \in Ctxs : \A n \in CookieNamesRead, m \in CookieNamesRead :
        (Has(ctxs[c].cookies, n) /\ ToLowerCase(m) = ToLowerCase(n)) =>
            CookiesGet(ctxs[c], m) # JsUndefined

\* The name was configured for context c or written on it, exactly as spelled.
HeldExactly(c, n) ==
    \/ Has(baseOptions.cookies.kv, n)
    \/ Has(overrides[c].cookies.kv, n)
    \/ \E i \in 1 .. Len(writes[c]) : writes[c][i].k = n

\* C13 amended: cookie lookups match the name exactly: ctx.cookies.get(name) returns
\* a cookie if and only if one was configured or written under exactly that name.
C13_Amended ==
    \A c \in Ctxs : \A n \in CookieNamesRead :
        CookiesGet(ctxs[c], n) # JsUndefined <=> HeldExactly(c, n)

\* 'session' has been written and 'Session' has not: the first is found, the second
\* is not.
C13_Witness ==
    /\ Len(ctxs) = 1
    /\ last.op = "cookies.set" /\ last.key = "session"
    /\ CookiesGet(ctxs[1], "session") = last.val
    /\ CookiesGet(ctxs[1], "Session") = JsUndefined

\* C14: ctx.status, ctx.body and ctx.message are the response's, ctx.method and
\* ctx.url the request's, ctx.headers the request's header store, in every state: a
\* write through the context shows on the request or response object, a write to
\* the request or response object shows through the context, and a header written
\* with setHeaders shows in ctx.headers.
C14_Delegated ==
    \A c \in Ctxs :
        /\ \A prop \in ResponseProps : CtxRead(ctxs[c], prop) = ctxs[c].response[prop]
        /\ \A prop \in RequestProps : CtxRead(ctxs[c], prop) = ctxs[c].request[prop]
        /\ CtxHeaders(ctxs[c]) = ctxs[c].request.headers
        /\ (last.c = c /\ last.op = "ctx write" /\ last.key \in ResponseProps) =>
               ctxs[c].response[last.key] = last.val
        /\ (last.c = c /\ last.op = "ctx write" /\ last.key \in RequestProps) =>
               ctxs[c].request[last.key] = last.val
        /\ (last.c = c /\ last.op = "owner write") =>
               CtxRead(ctxs[c], last.key) = last.val
        /\ (last.c = c /\ last.op = "setHeaders") =>
               /\ Has(CtxHeaders(ctxs[c]), ToLowerCase(last.key))
               /\ Get(CtxHeaders(ctxs[c]), ToLowerCase(last.key)) = last.val

\* The method was written through the context, then the status on the response.
C14_Witness ==
    /\ Len(ctxs) = 1 /\ muts = 2
    /\ last.op = "owner write" /\ last.key = "status"
    /\ ctxs[1].request.method = ViaCtx("method")
    /\ CtxRead(ctxs[1], "status") = ViaOwner("status")

\* C15: right after ctx.redirect(url), whatever was done before, the response status
\* is 302, read through ctx.status or ctx.response.status, and the response's
\* Location header is url.
C15_Redirect ==
    \A c \in Ctxs :
        (last.op = "redirect" /\ last.c = c) =>
            /\ ctxs[c].response.status = Num(302)
            /\ CtxRead(ctxs[c], "status") = Num(302)
            /\ \E i \in 1 .. Len(ctxs[c].response.headers) :
                   ToLowerCase(ctxs[c].response.headers[i].k) = "location"
            /\ \A i \in 1 .. Len(ctxs[c].response.headers) :
                   ToLowerCase(ctxs[c].response.headers[i].k) = "location" =>
                       ctxs[c].response.headers[i].v = last.val

\* A redirect on a context configured with status 404, after another operation.
C15_Witness ==
    /\ Len(ctxs) = 1 /\ muts = 2
    /\ last.op = "redirect"
    /\ baseOptions.status = Given(Num(404))
    /\ overrides[1].status = Absent

RequestSide(l) ==
    \/ l.op \in {"setBody", "setHeaders"}
    \/ l.op \in {"ctx write", "owner write"} /\ l.key \in RequestProps \cup {"requestBody"}

ResponseSide(l) ==
    \/ l.op \in {"set", "set mapping", "redirect"}
    \/ l.op \in {"ctx write", "owner write"} /\ l.key \in ResponseProps

Latest(c, n) ==
    LET at == {i \in 1 .. Len(writes[c]) : writes[c][i].k = n}
    IN  IF at # {} THEN writes[c][CHOOSE i \in at : \A j \in at : j <= i].v
        ELSE IF Has(overrides[c].cookies.kv, n) THEN Get(overrides[c].cookies.kv, n)
        ELSE IF Has(baseOptions.cookies.kv, n) THEN Get(baseOptions.cookies.kv, n)
        ELSE JsUndefined

\* C17: a context has one cookie store: after any ctx.cookies.set and ctx.setCookies
\* calls ctx.cookies.get(name) returns the value written last for that name, the
\* configured value if none was written, and nothing for a name never configured or
\* written.
C17_OneStore ==
    \A c \in Ctxs : \A n \in CookieNamesRead : CookiesGet(ctxs[c], n) = Latest(c, n)

\* 'session' was written by setCookies and then by cookies.set with another value.
C17_Witness ==
    /\ Len(ctxs) = 1
    /\ Len(writes[1]) = 3
    /\ writes[1][2].k = "session" /\ writes[1][3].k = "session"
    /\ writes[1][2].v # writes[1][3].v
    /\ CookiesGet(ctxs[1], "theme") = Prim("light")

\* C18: when the configuration supplies an application handle, ctx.app,
\* ctx.request.app and ctx.response.app are that very object, which is left as it
\* was; when it supplies none they are one new default double.
C18_SameApp ==
    \A c \in Ctxs :
        LET app == IF overrides[c].app.has THEN overrides[c].app ELSE baseOptions.app
        IN  /\ ctxs[c].request.app = ctxs[c].app
            /\ ctxs[c].response.app = ctxs[c].app
            /\ IF Supplies(app)
               THEN /\ ctxs[c].app = app.v
                    /\ heap[app.v.at] = CallerHeap[app.v.at]
               ELSE /\ ctxs[c].app.at > Len(CallerHeap)
                    /\ heap[ctxs[c].app.at] = AppCell("default")

\* A context built with the caller's application handle, and used since.
C18_Witness ==
    /\ Len(ctxs) = 1 /\ muts = 2
    /\ baseOptions.app = Given(Ref(9))
    /\ ctxs[1].app = Ref(9)

\* C19: a freshly built context's response body, ctx.body, equals the configured
\* `body` when the configuration supplies one, and is null otherwise.
C19_InitialBody ==
    \A c \in Ctxs : Fresh =>
        LET body == IF overrides[c].body.has THEN overrides[c].body ELSE baseOptions.body
        IN  ViewVal(CtxRead(ctxs[c], "body"), heap) =
                (IF Supplies(body) THEN ViewVal(body.v, CallerHeap)
                 ELSE ViewVal(JsNull, heap))

\* C20: a freshly built context's request body, ctx.request.body, equals the
\* configured `requestBody` when the configuration supplies one.
C20_RequestBody ==
    \A c \in Ctxs : Fresh =>
        LET requestBody == IF overrides[c].requestBody.has THEN overrides[c].requestBody
                           ELSE baseOptions.requestBody
        IN  Supplies(requestBody) =>
                ViewVal(ctxs[c].request.body, heap) = ViewVal(requestBody.v, CallerHeap)

----------------------------------------------------------------------------
(* The factory called with any configuration *)

\* A promise already resolved with the value v.
ResolvedWith(v) == [t |-> "promise", s |-> "resolved", at |-> 0, v |-> v]

\* C21: every build returns, with the context, a fresh continuation stub that has
\* recorded no invocation, that records every later invocation, and that returns a
\* promise resolved with no value when it is called.
C21_Stub ==
    \A c \in Ctxs :
        /\ invoked[c] = 0 => nexts[c].calls = <<>>
        /\ Len(nexts[c].calls) = invoked[c]
        /\ \A i \in 1 .. Len(nexts[c].results) :
               nexts[c].results[i] = ResolvedWith(JsUndefined)

\* C22: building a context never raises: whatever the base and the override
\* configuration hold, the call returns a context and a continuation, and no error.
C22_NeverRaises == raised = "none"

\* Neither the factory's base options nor the override of context c has files.
NoFilesSupplied(c) == ~baseOptions.files.def /\ ~overrides[c].files.def

\* The request headers of context c declare a multipart/form-data content type.
DeclaresMultipart(c) ==
    \E i \in 1 .. Len(ctxs[c].request.headers) :
        /\ ctxs[c].request.headers[i].k = "content-type"
        /\ ctxs[c].request.headers[i].v \in
               {Prim("multipart/form-data"), Prim("multipart/form-data; boundary=x")}

ShownContentType(c) ==
    {built[c].headers[i].v.s :
        i \in {j \in 1 .. Len(built[c].headers) : built[c].headers[j].k = "content-type"}}

ConfiguredFile(c, k) ==
    IF Has(overrides[c].files.kv, k) THEN Get(overrides[c].files.kv, k)
    ELSE Get(baseOptions.files.kv, k)

\* The record u is the descriptor d, normalized.
NormalizedFrom(d, u) ==
    /\ u.filepath = d.filepath
    /\ u.size = (IF d.size = <<>> THEN 0 ELSE d.size[1])
    /\ u.originalFilename =
           (IF d.originalFilename = <<>> THEN "mockfile.txt" ELSE d.originalFilename[1])
    /\ u.mimetype =
           (IF d.mimetype = <<>> THEN "application/octet-stream" ELSE d.mimetype[1])

\* C25: every configured file descriptor, a field's single one or an element of a
\* field's list, is normalized to a record with the descriptor's path and with its
\* size, original name and media type when given, 0, 'mockfile.txt' and
\* 'application/octet-stream' otherwise; a list keeps its length and order, every
\* configured field name is kept, and the caller's descriptors are not mutated.
C25_Normalized ==
    \A c \in Ctxs : ~NoFilesSupplied(c) =>
        /\ ctxs[c].request.files.def
        /\ Keys(ctxs[c].request.files.kv) =
               Keys(baseOptions.files.kv) \cup Keys(overrides[c].files.kv)
        /\ \A k \in Keys(ctxs[c].request.files.kv) :
               LET d == BuildHeap[ConfiguredFile(c, k).at]
                   u == heap[Get(ctxs[c].request.files.kv, k).at]
               IN  IF d.kind = "list"
                   THEN /\ u.kind = "list"
                        /\ Len(u.refs) = Len(d.refs)
                        /\ \A i \in 1 .. Len(d.refs) :
                               NormalizedFrom(BuildHeap[d.refs[i]], heap[u.refs[i]])
                   ELSE NormalizedFrom(d, u)
        /\ \A a \in 1 .. Len(BuildHeap) : heap[a] = BuildHeap[a]

\* A context with a list of two descriptors, the first with defaults to fill in,
\* and a single descriptor that gives every field.
C25_Witness ==
    /\ Len(ctxs) >= 1
    /\ ctxs[1].request.files.def
    /\ Keys(ctxs[1].request.files.kv) = {"gallery", "defaultConfig"}
    /\ LET gallery == heap[Get(ctxs[1].request.files.kv, "gallery").at]
           defaultConfig == heap[Get(ctxs[1].request.files.kv, "defaultConfig").at]
       IN  /\ gallery.kind = "list" /\ Len(gallery.refs) = 2
           /\ heap[gallery.refs[1]].size = 0
           /\ heap[gallery.refs[2]].size = 54321
           /\ defaultConfig.mimetype = "image/jpeg"

----------------------------------------------------------------------------
(* The response's surface *)

\* C26: a response header written with ctx.set(name, value) can be read back with
\* ctx.response.get(name), which returns value.
C26_ReadBack ==
    last.op = "set" => ResponseReturn("get") = [threw |-> "none", v |-> last.val]

----------------------------------------------------------------------------
(* Request headers given in more than one spelling *)

\* What a configuration gives for the header `name`, in any spelling: its entries
\* in headers, then those in requestHeaders.
HeaderEntries(opts, name) ==
    SelectSeq(opts.headers.kv \o opts.requestHeaders.kv,
              LAMBDA e : ToLowerCase(e.k) = name)

\* C29: when the base and the override configuration supply the same request
\* header under names that differ only in letter case, in headers or in
\* requestHeaders, ctx.get returns the override's value for that header.
C29_OverrideWinsAcrossCase ==
    \A c \in Ctxs : \A name \in {"x-request-id", "content-type"} :
        LET b == HeaderEntries(baseOptions, name)
            o == HeaderEntries(overrides[c], name)
        IN  (\E i \in 1 .. Len(b), j \in 1 .. Len(o) : b[i].k # o[j].k) =>
                RequestGet(ctxs[c], name, heap) = o[Len(o)].v

----------------------------------------------------------------------------
(* compose: the end of the list *)

\* C27: the final continuation is invoked only when dispatch reaches the end of
\* the middleware list, after every middleware in the list has been entered; and
\* reaching the end with no final continuation supplied resolves at once.
C27_FinalContinuation ==
    /\ entries[N] > 0 => /\ index = N
                         /\ \A i \in Mws : entries[i] > 0
    /\ (next = "absent" /\ index = N) => /\ entries[N] = 0
                                         /\ res[N] = Resolved

\* Two middleware, both entered, and the final continuation invoked once.
C27_Witness ==
    /\ N = 2
    /\ next # "absent"
    /\ entries[N] = 1
    /\ order = <<0, 1>>

----------------------------------------------------------------------------
(* compose: when the composed call settles *)

\* Every body before k has awaited each continuation promise it obtained.
UpstreamAwaits(k) == \A j \in Mws : j < k => ~dropped[j]

\* Body k is suspended on work of its own, which may never complete, and has not
\* called its continuation.
Stalled(k) == pc[k] = "awaitOwn" /\ calls[k] = 0

\* C28, as stated, in the form a finite run refutes: nothing but the first
\* middleware's returned value settles the composed call, and while a middleware
\* that has not called its continuation is suspended on a value of its own, which
\* may never settle, the composed call is pending.
C28_Original ==
    N > 0 =>
        /\ Settled(res[0]) <=> pc[0] = "done"
        /\ \A k \in Mws : Stalled(k) => ~Settled(res[0])

\* C28, amended: with at least one middleware, the composed call's promise
\* settles exactly when the value returned by the first middleware settles; while
\* a middleware that has not called its continuation is suspended on a value of
\* its own, the composed call is pending if that middleware is the first or every
\* middleware before it awaits the promise of its continuation.
C28_Amended ==
    N > 0 =>
        /\ Settled(res[0]) <=> pc[0] = "done"
        /\ \A k \in Mws : (Stalled(k) /\ UpstreamAwaits(k)) => ~Settled(res[0])

\* The second middleware is suspended without having called its continuation, the
\* first awaits it, and the composed call is pending.
C28_Witness ==
    /\ N = 2
    /\ Stalled(1)
    /\ pc[0] = "awaitNext" /\ got[0] = ChainPromise(1)
    /\ res[0] = Pending

----------------------------------------------------------------------------
(* compose: two invocations of one composed callable *)

\* C30: two invocations of the same composed callable, interleaved in any order,
\* keep independent dispatch cursors: each enters the middleware in list order,
\* each at most once, and dispatch refuses a call with 'next() called multiple
\* times' only when it is the calling middleware's own second or later call in
\* that invocation, whatever the other invocation has done.
C30_IndependentCursors ==
    \A a \in started :
        /\ \A n \in 1 .. Len(entered[a]) : entered[a][n] = n - 1
        /\ \A r \in refused[a] : r[1] \in Mws /\ r[2] >= 2

\* The second invocation has run to the end of the list while the first was
\* suspended in its first middleware; the first has then entered its second.
C30_Witness ==
    /\ N = 2
    /\ started = {1, 2}
    /\ entered[2] = <<0, 1, 2>>
    /\ entered[1] = <<0, 1>>
    /\ where[1][1] = "run"
    /\ where[2][0] = "done" /\ where[2][1] = "done"

====
